---- MODULE Spec2Model ----
(***************************************************************************)
(* Model of ValkyriaChroniclesPatch.py: the resolution patch tool for      *)
(* Valkyria.exe.  One run of the tool (patch) reads the YAML               *)
(* configuration, asks for the desktop resolution, builds the replacement  *)
(* pattern and calls edit_exe, which picks the search pattern (sidecar     *)
(* patch.txt or the default), finds it in the executable, overwrites it    *)
(* and records the replacement in patch.txt.                               *)
(*                                                                         *)
(* Texts are modelled as the token sequences str.split() yields; a token   *)
(* is a sequence of one-character strings.  Byte buffers are sequences of  *)
(* integers in 0..255.  Files are records with an "exists" flag.           *)
(***************************************************************************)
EXTENDS Integers, Sequences, FiniteSets, TLC

VARIABLES
    exe,             \* ../Valkyria.exe : [exists, bytes]
    sidecar,         \* patch.txt : [exists, lines], a line is a token sequence
    installed,       \* the image the game was installed from
    exePatched,      \* the tool overwrote the executable since it was installed
    sidecarByTool,   \* patch.txt is as the tool's last write left it
    applied,         \* replacement bytes of the latest run that overwrote exe
    last,            \* record of the most recent run of patch
    prev             \* summary of the run before it, if it overwrote exe

vars == <<exe, sidecar, installed, exePatched, sidecarByTool, applied, last, prev>>

\* Longest executable image a run is allowed to produce in the model.
MaxLen == 64

Max(a, b) == IF a >= b THEN a ELSE b

(***************************************************************************)
(* Signature codec                                                         *)
(***************************************************************************)
HexDigits == <<"0", "1", "2", "3", "4", "5", "6", "7",
               "8", "9", "A", "B", "C", "D", "E", "F">>

\* The value int() gives one character in base 16, -1 when it is no digit.
DigitValue(c) ==
    CASE c = "0" -> 0  [] c = "1" -> 1  [] c = "2" -> 2  [] c = "3" -> 3
      [] c = "4" -> 4  [] c = "5" -> 5  [] c = "6" -> 6  [] c = "7" -> 7
      [] c = "8" -> 8  [] c = "9" -> 9
      [] c = "A" \/ c = "a" -> 10  [] c = "B" \/ c = "b" -> 11
      [] c = "C" \/ c = "c" -> 12  [] c = "D" \/ c = "d" -> 13
      [] c = "E" \/ c = "e" -> 14  [] c = "F" \/ c = "f" -> 15
      [] OTHER -> -1

\* int(token, 16) read digit by digit, acc the value of the digits read so
\* far: -1 stands for the ValueError of a token that is no number.
RECURSIVE DigitsValue(_, _)
DigitsValue(tok, acc) ==
    IF tok = <<>> THEN acc
    ELSE IF DigitValue(Head(tok)) = -1 THEN -1
    ELSE DigitsValue(Tail(tok), 16 * acc + DigitValue(Head(tok)))

IntBase16(tok) == IF tok = <<>> THEN -1 ELSE DigitsValue(tok, 0)

IsWildcard(tok) == tok = <<"?">> \/ tok = <<"?", "?">>

\* One token of parse_signature: 0 for a wildcard, else int(token, 16).
TokenByte(tok) == IF IsWildcard(tok) THEN 0 ELSE IntBase16(tok)

\* byte_array of parse_signature: one value per token of signature.split().
RECURSIVE TokenBytes(_)
TokenBytes(signature) ==
    IF signature = <<>> THEN <<>>
    ELSE <<TokenByte(Head(signature))>> \o TokenBytes(Tail(signature))

\* parse_signature: ok = FALSE is the ValueError of int() or of bytes().
parse_signature(signature) ==
    LET vals == TokenBytes(signature)
    IN  IF \E i \in 1..Len(vals) : vals[i] < 0 \/ vals[i] > 255
        THEN [ok |-> FALSE, bytes |-> <<>>]
        ELSE [ok |-> TRUE, bytes |-> vals]

\* f"{byte:02X}"
FormatByte(b) == <<HexDigits[(b \div 16) + 1], HexDigits[(b % 16) + 1]>>

\* " ".join(f"{byte:02X}" for byte in buf), as tokens
RECURSIVE FormatBytes(_)
FormatBytes(buf) ==
    IF buf = <<>> THEN <<>>
    ELSE <<FormatByte(Head(buf))>> \o FormatBytes(Tail(buf))

(***************************************************************************)
(* Resolution source                                                       *)
(***************************************************************************)
\* get_desktop_resolution: the first primary monitor, else the first one;
\* ok = FALSE is the IndexError of an empty monitor list.
get_desktop_resolution(mons) ==
    IF \E i \in 1..Len(mons) : mons[i].is_primary
    THEN LET i == CHOOSE k \in 1..Len(mons) :
                     /\ mons[k].is_primary
                     /\ \A j \in 1..(k - 1) : ~mons[j].is_primary
         IN  [ok |-> TRUE, width |-> mons[i].width, height |-> mons[i].height]
    ELSE IF Len(mons) = 0
         THEN [ok |-> FALSE, width |-> 0, height |-> 0]
         ELSE [ok |-> TRUE, width |-> mons[1].width, height |-> mons[1].height]

(***************************************************************************)
(* Patch calculator                                                        *)
(***************************************************************************)
\* v >= 2^32, written with divisions so that no numeral exceeds 32 bits.
NeedsMoreThan4Bytes(v) == (v \div 65536) \div 65536 > 0

\* Faulty variant of to_bytes: three bytes instead of four.
to_bytes_ThreeBytes(v) ==
    IF v < 0 \/ v >= 16777216
    THEN [ok |-> FALSE, bytes |-> <<>>]
    ELSE [ok |-> TRUE,
          bytes |-> <<v % 256, (v \div 256) % 256, (v \div 65536) % 256>>]

\* int.to_bytes(4, byteorder="little", signed=False); ok = FALSE is the
\* OverflowError of a negative value or of one that needs more than 4 bytes.
to_bytes(v) ==
    IF v < 0 \/ NeedsMoreThan4Bytes(v)
    THEN [ok |-> FALSE, bytes |-> <<>>]
    ELSE [ok |-> TRUE,
          bytes |-> <<v % 256, (v \div 256) % 256,
                      (v \div 65536) % 256, (v \div 16777216) % 256>>]

\* int(x / 2): true division, then truncation toward zero.
IntHalf(x) == IF x >= 0 THEN x \div 2 ELSE -((-x) \div 2)

\* Faulty variant of EffectiveResolution: "and" where the code has "or".
EffectiveResolution_BothZero(width, height, desktop_width, desktop_height) ==
    IF width = 0 /\ height = 0
    THEN [width |-> desktop_width, height |-> desktop_height]
    ELSE [width |-> width, height |-> height]

\* The resolution patch uses: the desktop's when width or height is 0.
EffectiveResolution(width, height, desktop_width, desktop_height) ==
    IF width = 0 \/ height = 0
    THEN [width |-> desktop_width, height |-> desktop_height]
    ELSE [width |-> width, height |-> height]

Tok(a, b) == <<a, b>>

\* search_pattern1 of patch
search_pattern1 ==
    <<Tok("B", "8"), Tok("3", "9"), Tok("8", "E"), Tok("E", "3"), Tok("3", "8"),
      Tok("F", "7"), Tok("E", "3"), Tok("8", "B"), Tok("F", "A"),
      Tok("B", "8"), Tok("3", "9"), Tok("8", "E"), Tok("E", "3"), Tok("3", "8")>>

\* Lines 186-198 of patch: ok = FALSE is the OverflowError of to_bytes.
replace_pattern(cw, ch, desktop_width, desktop_height) ==
    LET r       == EffectiveResolution(cw, ch, desktop_width, desktop_height)
        offset  == to_bytes(IntHalf(desktop_width - r.width))
        special == to_bytes(r.height * 16)
        width   == to_bytes(r.width)
        height  == to_bytes(r.height)
    IN  IF ~(special.ok /\ width.ok /\ height.ok /\ offset.ok)
        THEN [ok |-> FALSE, text |-> <<>>]
        ELSE [ok |-> TRUE,
              text |-> <<Tok("B", "8")>> \o FormatBytes(width.bytes)
                    \o <<Tok("B", "B")>> \o FormatBytes(special.bytes)
                    \o <<Tok("B", "9")>> \o FormatBytes(offset.bytes)
                    \o <<Tok("B", "A")>> \o FormatBytes(width.bytes)
                    \o <<Tok("B", "E")>> \o FormatBytes(height.bytes)
                    \o <<Tok("B", "F")>> \o FormatBytes(width.bytes)
                    \o <<Tok("9", "0")>>]

(***************************************************************************)
(* Executable patcher                                                      *)
(***************************************************************************)
Occurs(data, pat, i) ==
    /\ i + Len(pat) <= Len(data)
    /\ \A k \in 1..Len(pat) : data[i + k] = pat[k]

RECURSIVE FindFrom(_, _, _)
FindFrom(data, pat, i) ==
    IF i + Len(pat) > Len(data) THEN -1
    ELSE IF Occurs(data, pat, i) THEN i
    ELSE FindFrom(data, pat, i + 1)

\* Faulty variant of Find: the -1 of "not found" is taken for offset 0.
Find_NotFoundAsZero(data, pat) == Max(FindFrom(data, pat, 0), 0)

\* bytes.find(pat, 0): the lowest offset where pat occurs, -1 when none.
Find(data, pat) == FindFrom(data, pat, 0)

\* Faulty variant of WriteAt: the replacement is inserted, not written over.
WriteAt_Inserts(data, offset, rp) ==
    SubSeq(data, 1, offset) \o rp \o SubSeq(data, offset + 1, Len(data))

\* file.seek(offset); file.write(rp) on a file holding data.
WriteAt(data, offset, rp) ==
    SubSeq(data, 1, offset) \o rp
        \o SubSeq(data, offset + Len(rp) + 1, Len(data))

\* Faulty variant of RecordFile: patch.txt is truncated and nothing written.
RecordFile_WritesNothing(text) == [exists |-> TRUE, lines |-> <<>>]

\* What patch.txt holds after open("patch.txt", "w") and write(text).
RecordFile(text) ==
    [exists |-> TRUE, lines |-> IF text = <<>> THEN <<>> ELSE <<text>>]

\* Result of a run that has not (yet) touched anything.
Untouched(game, sc) ==
    [outcome |-> "none", raised |-> "none", diag |-> "none",
     exe |-> game, sidecar |-> sc,
     reached_edit_exe |-> FALSE, searched |-> FALSE,
     search |-> <<>>, used_sidecar |-> FALSE,
     sp |-> <<>>, rp_text |-> <<>>, rp |-> <<>>, offset |-> -1]

\* Faulty variant of EffectiveSearch: patch.txt is never consulted.
EffectiveSearch_IgnoresSidecar(sc, readable, default_pattern, default_bytes) ==
    [raised |-> "none", used_sidecar |-> FALSE,
     search |-> default_pattern, sp |-> default_bytes]

\* Lines 136-147 of edit_exe: the search pattern and its bytes after the
\* attempt to read patch.txt.  raised names the exception that escapes.
EffectiveSearch(sc, readable, default_pattern, default_bytes) ==
    IF ~sc.exists \/ ~readable
    THEN [raised |-> "none", used_sidecar |-> FALSE,
          search |-> default_pattern, sp |-> default_bytes]
    ELSE IF sc.lines = <<>>
    THEN [raised |-> "IndexError", used_sidecar |-> TRUE,
          search |-> default_pattern, sp |-> default_bytes]
    ELSE LET parsed == parse_signature(sc.lines[1])
         IN  IF ~parsed.ok
             THEN [raised |-> "ValueError", used_sidecar |-> TRUE,
                   search |-> sc.lines[1], sp |-> default_bytes]
             ELSE [raised |-> "none", used_sidecar |-> TRUE,
                   search |-> sc.lines[1], sp |-> parsed.bytes]

\* Faulty variant of SearchAndReplace: when sp1 is not found the default
\* pattern is searched instead.
SearchAndReplace_FallsBack(r, game, openable, replace_text) ==
    IF ~game.exists
    THEN [r EXCEPT !.outcome = "exe_error", !.diag = "exe_not_found"]
    ELSE IF ~openable
    THEN [r EXCEPT !.outcome = "exe_error", !.diag = "exe_io_error"]
    ELSE LET first  == Find(game.bytes, r.sp)
             offset == IF first # -1 THEN first
                       ELSE Find(game.bytes, parse_signature(search_pattern1).bytes)
         IN  IF offset = -1
             THEN [r EXCEPT !.outcome = "not_found", !.diag = "cannot_find",
                            !.searched = TRUE]
             ELSE [r EXCEPT !.outcome = "patched", !.searched = TRUE,
                            !.offset = offset,
                            !.exe = [exists |-> TRUE,
                                     bytes |-> WriteAt(game.bytes, offset, r.rp)],
                            !.sidecar = RecordFile(replace_text)]

\* Lines 149-166 of edit_exe: find sp1 in the executable, overwrite, record.
SearchAndReplace(r, game, openable, replace_text) ==
    IF ~game.exists
    THEN [r EXCEPT !.outcome = "exe_error", !.diag = "exe_not_found"]
    ELSE IF ~openable
    THEN [r EXCEPT !.outcome = "exe_error", !.diag = "exe_io_error"]
    ELSE LET offset == Find(game.bytes, r.sp)
         IN  IF offset = -1
             THEN [r EXCEPT !.outcome = "not_found", !.diag = "cannot_find",
                            !.searched = TRUE]
             ELSE [r EXCEPT !.outcome = "patched", !.searched = TRUE,
                            !.offset = offset,
                            !.exe = [exists |-> TRUE,
                                     bytes |-> WriteAt(game.bytes, offset, r.rp)],
                            !.sidecar = RecordFile(replace_text)]

\* edit_exe(game_path, search_pattern, replace_pattern)
edit_exe(game, sc, openable, readable, search_pattern, replace_text) ==
    LET r0  == [Untouched(game, sc) EXCEPT !.reached_edit_exe = TRUE,
                                           !.rp_text = replace_text,
                                           !.search = search_pattern]
        sp1 == parse_signature(search_pattern)
        rp  == parse_signature(replace_text)
    IN  IF ~sp1.ok \/ ~rp.ok
        THEN [r0 EXCEPT !.outcome = "raised", !.raised = "ValueError"]
        ELSE LET eff == EffectiveSearch(sc, readable, search_pattern, sp1.bytes)
                 r1  == [r0 EXCEPT !.rp = rp.bytes, !.search = eff.search,
                                   !.used_sidecar = eff.used_sidecar,
                                   !.sp = eff.sp]
             IN  IF eff.raised # "none"
                 THEN [r1 EXCEPT !.outcome = "raised", !.raised = eff.raised]
                 ELSE SearchAndReplace(r1, game, openable, replace_text)

\* Faulty variant of read_yaml: a YAML error is not reported.
read_yaml_IgnoresYamlError(y) ==
    IF y.state = "missing" THEN "yaml_not_found" ELSE "none"

\* read_yaml: the diagnostic it prints, "none" when it returns the data.
read_yaml(y) ==
    IF y.state = "missing" THEN "yaml_not_found"
    ELSE IF y.state = "unparsable" THEN "yaml_parse_error"
    ELSE "none"

\* patch(game_exe): one whole run of the tool.
patch(game, sc, y, mons, openable, readable) ==
    LET r0 == Untouched(game, sc)
    IN  IF read_yaml(y) # "none"
        THEN [r0 EXCEPT !.outcome = "config_error", !.diag = read_yaml(y)]
        ELSE LET desktop == get_desktop_resolution(mons)
             IN  IF ~desktop.ok
                 THEN [r0 EXCEPT !.outcome = "raised", !.raised = "IndexError"]
                 ELSE LET pat == replace_pattern(y.width, y.height,
                                                 desktop.width, desktop.height)
                      IN  IF ~pat.ok
                          THEN [r0 EXCEPT !.outcome = "raised",
                                          !.raised = "OverflowError"]
                          ELSE edit_exe(game, sc, openable, readable,
                                        search_pattern1, pat.text)

(***************************************************************************)
(* The files, configurations and displays the tool is run against          *)
(***************************************************************************)
\* The code the patch replaces (module docstring): 31 bytes that start with
\* the 14 bytes of search_pattern1.
OriginalCode ==
    parse_signature(
        search_pattern1 \o
        <<Tok("F", "7"), Tok("E", "B"), Tok("D", "1"), Tok("F", "A"),
          Tok("8", "B"), Tok("C", "2"), Tok("C", "1"), Tok("E", "8"),
          Tok("1", "F"), Tok("0", "3"), Tok("C", "2"), Tok("2", "B"),
          Tok("C", "8"), Tok("D", "1"), Tok("E", "F"), Tok("D", "1"),
          Tok("F", "9")>>).bytes

DefaultBytes == parse_signature(search_pattern1).bytes

Prologue == parse_signature(<<Tok("5", "5"), Tok("8", "B"), Tok("E", "C")>>).bytes
Epilogue == parse_signature(<<Tok("C", "3")>>).bytes

\* Images of Valkyria.exe a run may meet.
Images ==
    [stock      |-> Prologue \o OriginalCode \o Epilogue,
     other      |-> Prologue \o SubSeq(DefaultBytes, 1, 9) \o Epilogue,
     cut        |-> Prologue \o DefaultBytes,
     twice      |-> OriginalCode \o DefaultBytes \o Epilogue,
     prepatched |-> parse_signature(replace_pattern(0, 0, 1920, 1080).text).bytes
                    \o OriginalCode]

ImageNames == DOMAIN Images

NoExe == [exists |-> FALSE, bytes |-> <<>>]
ExeFile(bytes) == [exists |-> TRUE, bytes |-> bytes]

NoSidecar == [exists |-> FALSE, lines |-> <<>>]

\* What an operator may leave in patch.txt by hand.
OperatorSidecars ==
    { <<>>,                                           \* an empty file
      << <<>> >>,                                     \* a blank first line
      << <<Tok("Z", "Z")>> >>,                        \* not hexadecimal
      << <<Tok("b", "8"), Tok("?", "?")>>, <<Tok("Z", "Z")>> >> }

Config(state, width, height) == [state |-> state, width |-> width, height |-> height]

\* What ValkyriaChroniclesFix.yml may hold when the tool is run.
Configs ==
    { Config("missing", 0, 0), Config("unparsable", 0, 0),
      Config("ok", 0, 0), Config("ok", 1280, 720), Config("ok", 5120, 1440) }

Monitor(width, height, is_primary) ==
    [width |-> width, height |-> height, is_primary |-> is_primary]

\* What get_monitors() returns when the tool is run.
MonitorSetups ==
    { <<Monitor(5120, 1440, FALSE), Monitor(1920, 1080, TRUE)>> }

\* Which open() fails in a run: none, that of the executable, that of patch.txt.
IoFaults == {"none", "exe", "sidecar"}

(***************************************************************************)
(* State machine                                                           *)
(***************************************************************************)
RunRecord(ran, game, sc, y, mons, openable, readable, patched, byTool, res) ==
    [ran |-> ran, pre_exe |-> game, pre_sidecar |-> sc, yml |-> y,
     monitors |-> mons, openable |-> openable, readable |-> readable,
     pre_patched |-> patched, pre_by_tool |-> byTool, res |-> res]

NoRun ==
    RunRecord(FALSE, NoExe, NoSidecar, Config("missing", 0, 0), <<>>,
              TRUE, TRUE, FALSE, FALSE, Untouched(NoExe, NoSidecar))

\* What a run keeps of the run before it when that run overwrote the
\* executable; a run that wrote nothing leaves no trace.
Summary(rec) ==
    IF rec.ran /\ rec.res.outcome = "patched"
    THEN [ran |-> TRUE, yml |-> rec.yml, monitors |-> rec.monitors,
          faultless |-> rec.openable /\ rec.readable,
          outcome |-> rec.res.outcome, offset |-> rec.res.offset,
          pristine |-> /\ rec.pre_exe.exists
                       /\ ~rec.pre_patched
                       /\ ~rec.pre_sidecar.exists]
    ELSE [ran |-> FALSE, yml |-> Config("missing", 0, 0), monitors |-> <<>>,
          faultless |-> TRUE, outcome |-> "none", offset |-> -1,
          pristine |-> FALSE]

NothingApplied == [any |-> FALSE, rp |-> <<>>]

Init ==
    /\ installed \in ImageNames
    /\ exe = ExeFile(Images[installed])
    /\ sidecar = NoSidecar
    /\ exePatched = FALSE
    /\ sidecarByTool = FALSE
    /\ applied = NothingApplied
    /\ last = NoRun
    /\ prev = Summary(NoRun)

\* python ValkyriaChroniclesPatch.py: patch("../Valkyria.exe"), with the
\* configuration y on disk, the displays mons attached, and the two files
\* openable or not.
RunWith(y, mons, openable, readable) ==
    \E res \in {patch(exe, sidecar, y, mons, openable, readable)} :
        /\ res.exe.exists => Len(res.exe.bytes) <= MaxLen
        /\ exe' = res.exe
        /\ sidecar' = res.sidecar
        /\ exePatched' = (exePatched \/ res.outcome = "patched")
        /\ sidecarByTool' = (sidecarByTool \/ res.outcome = "patched")
        /\ applied' = IF res.outcome = "patched"
                      THEN [any |-> TRUE, rp |-> res.rp]
                      ELSE applied
        /\ last' = RunRecord(TRUE, exe, sidecar, y, mons, openable, readable,
                             exePatched, sidecarByTool, res)
        /\ prev' = Summary(last)
        /\ UNCHANGED installed

Run ==
    \E y \in Configs, mons \in MonitorSetups, fault \in IoFaults :
        RunWith(y, mons, fault # "exe", fault # "sidecar")

\* "Delete and reinstall game and try again": the executable is restored.
Reinstall ==
    /\ exe' = ExeFile(Images[installed])
    /\ exe' # exe
    /\ exePatched' = FALSE
    /\ last' = NoRun
    /\ prev' = Summary(NoRun)
    /\ UNCHANGED <<sidecar, installed, sidecarByTool, applied>>

\* The executable is deleted.
Uninstall ==
    /\ exe.exists
    /\ exe' = NoExe
    /\ exePatched' = FALSE
    /\ last' = NoRun
    /\ prev' = Summary(NoRun)
    /\ UNCHANGED <<sidecar, installed, sidecarByTool, applied>>

\* patch.txt is deleted.
DeleteSidecar ==
    /\ sidecar.exists
    /\ sidecar' = NoSidecar
    /\ sidecarByTool' = FALSE
    /\ last' = NoRun
    /\ prev' = Summary(NoRun)
    /\ UNCHANGED <<exe, installed, exePatched, applied>>

\* patch.txt is written by hand.
EditSidecar ==
    /\ \E lines \in OperatorSidecars : sidecar' = [exists |-> TRUE, lines |-> lines]
    /\ sidecar' # sidecar
    /\ sidecarByTool' = FALSE
    /\ last' = NoRun
    /\ prev' = Summary(NoRun)
    /\ UNCHANGED <<exe, installed, exePatched, applied>>

Next ==
    \/ Run
    \/ Reinstall
    \/ Uninstall
    \/ DeleteSidecar
    \/ EditSidecar

Spec == Init /\ [][Next]_vars

\* Resolutions and display setups for the claims about the patch calculator.
CalcConfigs ==
    { Config("ok", 0, 0), Config("ok", 0, 1440), Config("ok", 1920, 0),
      Config("ok", 1279, 720), Config("ok", 1920, 1080), Config("ok", 5120, 1440) }

CalcMonitorSetups ==
    { <<Monitor(1920, 1080, TRUE)>>,
      <<Monitor(5120, 1440, FALSE), Monitor(1920, 1080, TRUE)>>,
      <<Monitor(5120, 1440, FALSE), Monitor(1920, 1080, FALSE)>> }

InitCalc == Init /\ installed = "stock"

RunCalc ==
    \E y \in CalcConfigs, mons \in CalcMonitorSetups : RunWith(y, mons, TRUE, TRUE)

SpecCalc == InitCalc /\ [][RunCalc]_vars

(***************************************************************************)
(* Properties                                                              *)
(***************************************************************************)
OccursAnywhere(data, pat) == \E i \in 0..Len(data) : Occurs(data, pat, i)

\* i is the lowest offset at which pat occurs in data.
FirstOccurrence(data, pat, i) ==
    /\ Occurs(data, pat, i)
    /\ \A j \in 0..(i - 1) : ~Occurs(data, pat, j)

\* The run read a first line from patch.txt.
SidecarWasRead(rec) == rec.pre_sidecar.exists /\ rec.readable

\* The pattern edit_exe has to search for: the first line of patch.txt when
\* the file exists and can be read, the default otherwise.
EffectivePattern(rec) ==
    IF SidecarWasRead(rec) THEN rec.pre_sidecar.lines[1] ELSE search_pattern1

\* The run called edit_exe and got a search pattern that decodes.
HasSearchPattern(rec) ==
    /\ rec.ran
    /\ rec.res.reached_edit_exe
    /\ SidecarWasRead(rec) =>
           /\ rec.pre_sidecar.lines # <<>>
           /\ parse_signature(rec.pre_sidecar.lines[1]).ok

\* The run opened the executable and searched it.
Searched(rec) == HasSearchPattern(rec) /\ rec.pre_exe.exists /\ rec.openable

SearchBytes(rec) == parse_signature(EffectivePattern(rec)).bytes

ReplaceBytes(rec) == parse_signature(rec.res.rp_text).bytes

DesktopOf(rec) == get_desktop_resolution(rec.monitors)

\* C1: when the decoded search bytes do not occur in the executable, the run
\* reports "cannot find", the executable keeps its bytes and patch.txt is
\* neither created nor changed.
C1_NotFoundWritesNothing ==
    (Searched(last) /\ ~OccursAnywhere(last.pre_exe.bytes, SearchBytes(last)))
        => /\ last.res.outcome = "not_found"
           /\ last.res.diag = "cannot_find"
           /\ exe = last.pre_exe
           /\ sidecar = last.pre_sidecar

C1_Witness ==
    /\ Searched(last)
    /\ SidecarWasRead(last)
    /\ ~OccursAnywhere(last.pre_exe.bytes, SearchBytes(last))
    /\ OccursAnywhere(last.pre_exe.bytes, DefaultBytes)
    /\ last.res.outcome = "not_found"

\* C2: when the decoded search bytes occur in the executable, the run writes
\* the replacement bytes over exactly the Len(rp) bytes that start at the
\* first occurrence, and every byte outside that range keeps its value.
C2_OverwritesOnlyTheRange ==
    (Searched(last) /\ OccursAnywhere(last.pre_exe.bytes, SearchBytes(last)))
        => \E o \in 0..Len(last.pre_exe.bytes) :
              /\ FirstOccurrence(last.pre_exe.bytes, SearchBytes(last), o)
              /\ last.res.outcome = "patched"
              /\ last.res.offset = o
              /\ exe.exists
              /\ Len(exe.bytes) = Max(Len(last.pre_exe.bytes), o + Len(ReplaceBytes(last)))
              /\ \A i \in 1..Len(exe.bytes) :
                    exe.bytes[i] = IF i > o /\ i <= o + Len(ReplaceBytes(last))
                                   THEN ReplaceBytes(last)[i - o]
                                   ELSE last.pre_exe.bytes[i]

C2_Witness ==
    /\ Searched(last)
    /\ last.res.outcome = "patched"
    /\ last.res.offset > 0
    /\ Len(last.pre_exe.bytes) > last.res.offset + Len(ReplaceBytes(last))
    /\ exe # last.pre_exe

C4_RerunIsIdempotent ==
    (/\ last.ran /\ prev.ran
     /\ prev.outcome = "patched"
     /\ last.yml = prev.yml
     /\ DesktopOf(last) = get_desktop_resolution(prev.monitors)
     /\ last.openable /\ last.readable)
        => /\ last.res.outcome = "patched"
           /\ exe = last.pre_exe
           /\ sidecar = last.pre_sidecar

C4_Witness ==
    /\ last.ran /\ prev.ran
    /\ prev.outcome = "patched"
    /\ last.yml = prev.yml
    /\ last.openable /\ last.readable
    /\ last.res.outcome = "patched"
    /\ exe = last.pre_exe

\* Reading of a replacement pattern as the claims describe it.
IsUpperHexToken(tok) ==
    /\ Len(tok) = 2
    /\ \A k \in 1..2 : \E d \in 1..16 : HexDigits[d] = tok[k]

UpperHexValue(tok) ==
    16 * ((CHOOSE d \in 1..16 : HexDigits[d] = tok[1]) - 1)
       + ((CHOOSE d \in 1..16 : HexDigits[d] = tok[2]) - 1)

\* The number whose 4-byte little-endian encoding text[i..i+3] spells.
LittleEndianAt(text, i) ==
    UpperHexValue(text[i]) + 256 * UpperHexValue(text[i + 1])
        + 65536 * UpperHexValue(text[i + 2])
        + 16777216 * UpperHexValue(text[i + 3])

\* text is 'B8 <w> BB <special> B9 <off> BA <w> BE <h> BF <w> 90'.
IsReference(text, w, h, special, off) ==
    /\ Len(text) = 31
    /\ \A i \in 1..31 : IsUpperHexToken(text[i])
    /\ text[1] = <<"B", "8">>   /\ LittleEndianAt(text, 2) = w
    /\ text[6] = <<"B", "B">>   /\ LittleEndianAt(text, 7) = special
    /\ text[11] = <<"B", "9">>  /\ LittleEndianAt(text, 12) = off
    /\ text[16] = <<"B", "A">>  /\ LittleEndianAt(text, 17) = w
    /\ text[21] = <<"B", "E">>  /\ LittleEndianAt(text, 22) = h
    /\ text[26] = <<"B", "F">>  /\ LittleEndianAt(text, 27) = w
    /\ text[31] = <<"9", "0">>

\* The resolution the claims say a run works with.
ClaimedResolution(rec) ==
    IF rec.yml.width = 0 \/ rec.yml.height = 0
    THEN [width |-> DesktopOf(rec).width, height |-> DesktopOf(rec).height]
    ELSE [width |-> rec.yml.width, height |-> rec.yml.height]

Example5120x1440 ==
    <<Tok("B", "8"), Tok("0", "0"), Tok("1", "4"), Tok("0", "0"), Tok("0", "0"),
      Tok("B", "B"), Tok("0", "0"), Tok("5", "A"), Tok("0", "0"), Tok("0", "0"),
      Tok("B", "9"), Tok("0", "0"), Tok("0", "0"), Tok("0", "0"), Tok("0", "0"),
      Tok("B", "A"), Tok("0", "0"), Tok("1", "4"), Tok("0", "0"), Tok("0", "0"),
      Tok("B", "E"), Tok("A", "0"), Tok("0", "5"), Tok("0", "0"), Tok("0", "0"),
      Tok("B", "F"), Tok("0", "0"), Tok("1", "4"), Tok("0", "0"), Tok("0", "0"),
      Tok("9", "0")>>

\* C5: with the effective resolution (w, h) no wider than the desktop, the
\* replacement pattern handed to edit_exe is
\* 'B8 <w> BB <h*16> B9 <(dw-w) div 2> BA <w> BE <h> BF <w> 90', each value
\* as four two-digit uppercase hex tokens, least significant byte first;
\* 5120x1440 on a 5120x1440 desktop gives the documented string and 0x0 on a
\* 1920x1080 desktop is patched as 1920x1080 with offset 0.
C5_ReplacementPattern ==
    (last.ran /\ last.yml.state = "ok" /\ DesktopOf(last).ok
        /\ ClaimedResolution(last).width <= DesktopOf(last).width)
        => LET w  == ClaimedResolution(last).width
               h  == ClaimedResolution(last).height
               dw == DesktopOf(last).width
           IN  /\ last.res.reached_edit_exe
               /\ IsReference(last.res.rp_text, w, h, h * 16, (dw - w) \div 2)
               /\ (w = 5120 /\ h = 1440 /\ dw = 5120)
                      => last.res.rp_text = Example5120x1440
               /\ (last.yml.width = 0 /\ last.yml.height = 0 /\ dw = 1920
                       /\ DesktopOf(last).height = 1080)
                      => IsReference(last.res.rp_text, 1920, 1080, 17280, 0)

C5_Witness ==
    /\ last.ran /\ last.yml.state = "ok"
    /\ last.yml.width = 1279 /\ last.yml.height = 720
    /\ DesktopOf(last).width = 1920
    /\ last.res.reached_edit_exe
    /\ LittleEndianAt(last.res.rp_text, 12) = 320

\* The 4-byte little-endian encoding of v mod 2^32 for a negative v, byte k
\* (0..3) of it: the complement of the same byte of -v - 1.
WrappedByte(v, k) ==
    255 - (((-v - 1) \div (IF k = 0 THEN 1 ELSE IF k = 1 THEN 256
                           ELSE IF k = 2 THEN 65536 ELSE 16777216)) % 256)

\* C6: when the effective width is greater than the desktop width the run
\* still builds a replacement pattern, whose offset field (the four tokens
\* after B9) spells the offset modulo 2^32, least significant byte first.
C6_NegativeOffsetWraps ==
    (last.ran /\ last.yml.state = "ok" /\ DesktopOf(last).ok
        /\ ClaimedResolution(last).width > DesktopOf(last).width)
        => /\ last.res.reached_edit_exe
           /\ Len(last.res.rp_text) = 31
           /\ \A k \in 0..3 :
                 /\ IsUpperHexToken(last.res.rp_text[12 + k])
                 /\ UpperHexValue(last.res.rp_text[12 + k]) =
                        WrappedByte((DesktopOf(last).width
                                        - ClaimedResolution(last).width) \div 2, k)

C8_FailuresLeaveFilesAlone ==
    /\ (last.ran /\ last.yml.state \in {"missing", "unparsable"})
          => /\ last.res.outcome = "config_error"
             /\ last.res.diag = (IF last.yml.state = "missing"
                                 THEN "yaml_not_found" ELSE "yaml_parse_error")
             /\ last.res.raised = "none"
             /\ exe = last.pre_exe
             /\ sidecar = last.pre_sidecar
    /\ (HasSearchPattern(last) /\ (~last.pre_exe.exists \/ ~last.openable))
          => /\ last.res.outcome = "exe_error"
             /\ last.res.diag = (IF last.pre_exe.exists
                                 THEN "exe_io_error" ELSE "exe_not_found")
             /\ last.res.raised = "none"
             /\ exe = last.pre_exe
             /\ sidecar = last.pre_sidecar

C8_Witness ==
    /\ HasSearchPattern(last)
    /\ last.pre_exe.exists /\ ~last.openable
    /\ SidecarWasRead(last)
    /\ OccursAnywhere(last.pre_exe.bytes, SearchBytes(last))
    /\ last.res.outcome = "exe_error"

\* What one run with the configuration and displays of rec does to the
\* installed image when there is no patch.txt.
SingleRun(rec) ==
    patch(ExeFile(Images[installed]), NoSidecar, rec.yml, rec.monitors, TRUE, TRUE)

\* C9: a run with resolution R1 on the installed image (no patch.txt)
\* followed by a run with resolution R2 leaves the executable equal to what
\* one run with R2 makes of the installed image, the second run overwrites
\* where the first did, and patch.txt ends as the pattern of R2.
C9_RepatchEqualsPatch ==
    (/\ last.ran /\ prev.ran /\ prev.outcome = "patched"
     /\ prev.pristine /\ prev.faultless /\ prev.yml.state = "ok"
     /\ last.yml.state = "ok" /\ last.openable /\ last.readable)
        => /\ exe = SingleRun(last).exe
           /\ sidecar = SingleRun(last).sidecar
           /\ last.res.outcome = "patched"
           /\ last.res.offset = prev.offset

\* The executable is the installed image again while patch.txt is still the
\* record of an earlier run that overwrote the executable.
RestoredWithRecord(rec) ==
    /\ Searched(rec)
    /\ SidecarWasRead(rec) /\ rec.pre_by_tool
    /\ ~rec.pre_patched
    /\ OccursAnywhere(rec.pre_exe.bytes, DefaultBytes)

\* The executable is still patched while patch.txt is gone.
PatchedWithoutRecord(rec) ==
    /\ Searched(rec)
    /\ rec.pre_patched
    /\ ~rec.pre_sidecar.exists

NotFoundNothingWritten(rec) ==
    /\ rec.res.outcome = "not_found"
    /\ exe = rec.pre_exe
    /\ sidecar = rec.pre_sidecar

\* A readable patch.txt is the only thing searched for.
SidecarOverrides(rec) ==
    (HasSearchPattern(rec) /\ SidecarWasRead(rec))
        => /\ rec.res.used_sidecar
           /\ rec.res.search = rec.pre_sidecar.lines[1]
           /\ rec.res.sp = parse_signature(rec.pre_sidecar.lines[1]).bytes

\* C10 as stated: a readable patch.txt is the only thing searched for, so a
\* run on the restored executable with the old record reports "cannot find"
\* and writes nothing although the default pattern occurs, and a run on the
\* patched executable without patch.txt searches the default and reports
\* "cannot find" too.
C10_NoFallback ==
    /\ SidecarOverrides(last)
    /\ RestoredWithRecord(last) => NotFoundNothingWritten(last)
    /\ PatchedWithoutRecord(last)
          => /\ last.res.sp = DefaultBytes
             /\ NotFoundNothingWritten(last)

\* C10, amended: as stated, except that the run on the restored executable
\* reports "cannot find" only if the recorded bytes do not occur in it, and
\* the run on the patched executable only if the default bytes do not occur
\* in it any more; otherwise the run overwrites at the first occurrence.
C10_NoFallbackUnlessPresent ==
    /\ SidecarOverrides(last)
    /\ RestoredWithRecord(last)
          => IF OccursAnywhere(last.pre_exe.bytes, SearchBytes(last))
             THEN /\ last.res.outcome = "patched"
                  /\ FirstOccurrence(last.pre_exe.bytes, SearchBytes(last),
                                     last.res.offset)
             ELSE NotFoundNothingWritten(last)
    /\ PatchedWithoutRecord(last)
          => /\ last.res.sp = DefaultBytes
             /\ IF OccursAnywhere(last.pre_exe.bytes, DefaultBytes)
                THEN /\ last.res.outcome = "patched"
                     /\ FirstOccurrence(last.pre_exe.bytes, DefaultBytes,
                                        last.res.offset)
                ELSE NotFoundNothingWritten(last)

C10_Witness ==
    /\ RestoredWithRecord(last)
    /\ ~OccursAnywhere(last.pre_exe.bytes, SearchBytes(last))
    /\ NotFoundNothingWritten(last)

====
